---- MODULE Spec2Model ----
(***************************************************************************)
(* Model of crates/rmcp-macros/src/tool.rs: the #[tool] attribute macro.   *)
(* tool() dispatches on the annotated item: tool_fn_item (a function) or   *)
(* tool_impl_item (an impl block).  The emitted code is modelled as data   *)
(* (descriptor accessor, dispatch wrapper, router, listing) and then run:  *)
(* the accessor is evaluated, the wrapper is stepped through its           *)
(* extraction statements, the router is asked for tools by name.           *)
(*                                                                         *)
(* Option<T> is a sequence of length 0 (None) or 1 (Some).  Text that the  *)
(* code trims or joins is a sequence of one-character strings; names that  *)
(* the code only copies or concatenates are TLA+ strings.  Rust's 0-based  *)
(* argument indexes are 1-based here.                                      *)
(***************************************************************************)
EXTENDS Integers, Sequences, FiniteSets, TLC

\* ------------------------------------------------------------------ bounds
\* typed parameters of a declaration
MaxParams == 2
\* outer attributes of a declaration
MaxDocs == 2
\* characters of one documentation line
MaxLineLen == 2
\* methods of an impl block
MaxMethods == 2
\* entries of an attribute argument list
MaxEntries == 3

\* ----------------------------------------------------------------- helpers
None == <<>>
Some(v) == <<v>>
IsSome(o) == Len(o) > 0
Unwrap(o) == o[1]

SeqsUpTo(S, n) == UNION {[1..k -> S] : k \in 0..n}

\* ------------------------------------------------------ program constants
TOOL_IDENT == "tool"
EMPTY_OBJECT == "rmcp::model::EmptyObject"
JSON_OBJECT == "rmcp::model::JsonObject"
RECEIVER_IDENT == "__rmcp_tool_receiver"
CONTEXT_IDENT == "context"
REQ_BINDING == "__rmcp_tool_req"

MSG_NO_IDENT == "input param must have an ident as name"
MSG_MIXED == "cannot mix aggregated and individual parameters"
MSG_TOOL_BOX_REQUIRED == "tool_box attribute is required for trait implementation"
MSG_TOOL_NOT_FOUND == "tool not found"

\* ------------------------------------------------------------- text model
Chars == {" ", "a"}
NEWLINE == "\n"
IsWhitespace(c) == c \in {" ", NEWLINE}

RECURSIVE TrimStart(_)
TrimStart(s) ==
    IF s = <<>> THEN <<>>
    ELSE IF IsWhitespace(Head(s)) THEN TrimStart(Tail(s))
    ELSE s

RECURSIVE TrimEnd(_)
TrimEnd(s) ==
    IF s = <<>> THEN <<>>
    ELSE IF IsWhitespace(s[Len(s)]) THEN TrimEnd(SubSeq(s, 1, Len(s) - 1))
    ELSE s

\* str::trim
Trim(s) == TrimEnd(TrimStart(s))

\* [String]::join("\n")
RECURSIVE Join(_)
Join(lines) ==
    IF lines = <<>> THEN <<>>
    ELSE IF Len(lines) = 1 THEN lines[1]
    ELSE lines[1] \o <<NEWLINE>> \o Join(Tail(lines))

\* An outer attribute of an item: a documentation line (#[doc = "..."]) or
\* any other attribute (path, no string value).
DocAttr(text) == [path |-> "doc", text |-> text]
OtherAttr(p) == [path |-> p, text |-> <<>>]

ExtractDocLineNoTrim(attr) ==
    IF attr.path /= "doc" THEN None
    ELSE IF Trim(attr.text) /= <<>> THEN Some(attr.text) ELSE None

\* extract_doc_line
ExtractDocLine(attr) ==
    IF attr.path /= "doc" THEN None
    ELSE LET content == Trim(attr.text)
         IN IF content /= <<>> THEN Some(content) ELSE None

\* attrs.iter().filter_map(extract_doc_line).collect::<Vec<_>>()
RECURSIVE DocLines(_)
DocLines(attrs) ==
    IF attrs = <<>> THEN <<>>
    ELSE LET l == ExtractDocLine(Head(attrs))
         IN (IF IsSome(l) THEN <<Unwrap(l)>> ELSE <<>>) \o DocLines(Tail(attrs))

DocContent(attrs) == Join(DocLines(attrs))

\* --------------------------------------------------- function declarations
FnIdents == {"add", "sum"}
IdentPats == {"a", "b"}
TuplePat == "(x, y)"
WildPat == "_"
Pats == IdentPats \cup {TuplePat, WildPat}
Types == {"i32", "Req"}

\* FnArg::Receiver / FnArg::Typed(PatType)
Receiver == [kind |-> "Receiver", pat |-> "self", ty |-> "&Self"]
Typed(p, t) == [kind |-> "Typed", pat |-> p, ty |-> t]
TypedArgs == {Typed(p, t) : p \in Pats, t \in Types}

\* syn::Pat::Ident(pat_ident) => Some(ident), _ => None
PatIdent(p) == IF p \in IdentPats THEN Some(p) ELSE None
\* the variables a pattern binds
PatVars(p) == IF p = TuplePat THEN {"x", "y"} ELSE IF p = WildPat THEN {} ELSE {p}
\* the names the tokens of a pattern read when they stand as an expression
\* (`_` is no expression: it never resolves)
PatExprVars(p) == IF p = TuplePat THEN {"x", "y"} ELSE {p}

\* str::to_ascii_uppercase on the identifiers of the model
ToAsciiUppercase(s) ==
    CASE s = "add" -> "ADD"
      [] s = "sum" -> "SUM"
      [] OTHER -> s

\* ToolParams
NoParam == [kind |-> "NoParam", attrs |-> <<>>, rust_type |-> None]
ParamsOf(attrs) == [kind |-> "Params", attrs |-> attrs, rust_type |-> None]
AggregatedOf(pat_type) == [kind |-> "Aggregated", attrs |-> <<>>, rust_type |-> Some(pat_type)]

\* ToolFnParamAttrs (the directive lists are carried verbatim onto the field)
ToolFnParamAttrs(pat_type) == [ident |-> Unwrap(PatIdent(pat_type.pat)), rust_type |-> pat_type.ty]

\* tool_fn_item, the classification of one typed argument
Caught(pat_type, aggr) ==
    IF aggr THEN [kind |-> "Aggregated", pat_type |-> pat_type]
    ELSE IF IsSome(PatIdent(pat_type.pat))
    THEN [kind |-> "Param", pat_type |-> pat_type]
    ELSE [kind |-> "Err", pat_type |-> pat_type]

\* The loop state of tool_fn_item: params, unextractable_args_indexes and the
\* early return (err).
LoopState(p, u, e) == [params |-> p, unextractable |-> u, err |-> e]

AccumulateForgetsIndex(caught, idx, st) ==
    CASE caught.kind = "Err" -> LoopState(st.params, st.unextractable, Some(MSG_NO_IDENT))
      [] caught.kind = "Param" ->
            LoopState(
                IF st.params.kind = "Params"
                THEN ParamsOf(Append(st.params.attrs, ToolFnParamAttrs(caught.pat_type)))
                ELSE ParamsOf(<<ToolFnParamAttrs(caught.pat_type)>>),
                st.unextractable, None)
      [] caught.kind = "Aggregated" ->
            IF st.params.kind = "Params"
            THEN LoopState(st.params, st.unextractable, Some(MSG_MIXED))
            ELSE LoopState(AggregatedOf(caught.pat_type), st.unextractable \cup {idx}, None)

\* tool_fn_item, `match caught`
Accumulate(caught, idx, st) ==
    CASE caught.kind = "Err" -> LoopState(st.params, st.unextractable, Some(MSG_NO_IDENT))
      [] caught.kind = "Param" ->
            LoopState(
                IF st.params.kind = "Params"
                THEN ParamsOf(Append(st.params.attrs, ToolFnParamAttrs(caught.pat_type)))
                ELSE ParamsOf(<<ToolFnParamAttrs(caught.pat_type)>>),
                st.unextractable \cup {idx}, None)
      [] caught.kind = "Aggregated" ->
            IF st.params.kind = "Params"
            THEN LoopState(st.params, st.unextractable, Some(MSG_MIXED))
            ELSE LoopState(AggregatedOf(caught.pat_type), st.unextractable \cup {idx}, None)

\* one iteration of the loop over input_fn.sig.inputs
ClassifyArg(fn_arg, idx, aggr, st) ==
    IF fn_arg.kind = "Receiver" THEN st
    ELSE Accumulate(Caught(fn_arg, aggr), idx, st)

\* ------------------------------------------------- descriptor accessor code
\* create_request_type: the synthetic record and its name
CreateRequestType(attrs, tool_name) ==
    [name |-> "__" \o ToAsciiUppercase(tool_name) \o "ToolCallParam", fields |-> attrs]

\* tool_fn_item, `let name = ...`
NameExpr(fn_item, ident) ==
    IF IsSome(fn_item.name)
    THEN [kind |-> "expr", text |-> Unwrap(fn_item.name)]
    ELSE [kind |-> "stringify", text |-> ident]

AccessorIdentFromName(fn_item, ident) == NameExpr(fn_item, ident).text \o "_tool_attr"

\* tool_fn_item, tool_attr_fn_ident
ToolAttrFnIdent(fn_item, ident) == ident \o "_tool_attr"

\* tool_fn_item, tool_call_fn_ident
ToolCallFnIdent(ident) == ident \o "_tool_call"

DescriptionExprDocFirst(fn_item, attrs) ==
    IF DocContent(attrs) /= <<>>
    THEN [kind |-> "trim_to_string", text |-> DocContent(attrs)]
    ELSE IF IsSome(fn_item.description)
    THEN [kind |-> "expr", text |-> Unwrap(fn_item.description)]
    ELSE [kind |-> "trim_to_string", text |-> <<>>]

\* tool_fn_item, `let description = ...` (the trim is part of the emitted
\* expression and runs when the accessor is called)
DescriptionExpr(fn_item, attrs) ==
    IF IsSome(fn_item.description)
    THEN [kind |-> "expr", text |-> Unwrap(fn_item.description)]
    ELSE [kind |-> "trim_to_string", text |-> DocContent(attrs)]

SchemaExprFirstField(params, ident) ==
    CASE params.kind = "Aggregated" ->
            [ty |-> Unwrap(params.rust_type).ty, decl |-> None]
      [] params.kind = "Params" ->
            LET rt == CreateRequestType(SubSeq(params.attrs, 1, 1), ident)
            IN [ty |-> rt.name, decl |-> Some(rt)]
      [] OTHER -> [ty |-> EMPTY_OBJECT, decl |-> None]

\* tool_fn_item, `let schema = match &tool_macro_attrs.params`
SchemaExpr(params, ident) ==
    CASE params.kind = "Aggregated" ->
            [ty |-> Unwrap(params.rust_type).ty, decl |-> None]
      [] params.kind = "Params" ->
            LET rt == CreateRequestType(params.attrs, ident)
            IN [ty |-> rt.name, decl |-> Some(rt)]
      [] OTHER -> [ty |-> EMPTY_OBJECT, decl |-> None]

\* tool_fn_item, `let annotations_code = ...`
AnnotationsCode(fn_item) ==
    IF IsSome(fn_item.annotations)
    THEN [kind |-> "Some(from_str(..).expect(..))", json |-> fn_item.annotations]
    ELSE [kind |-> "None", json |-> None]

\* the accessor function emitted by tool_fn_item
ToolAttrFn(fn_item, item, params) ==
    [ident |-> ToolAttrFnIdent(fn_item, item.ident),
     attrs |-> item.attrs,
     vis |-> item.vis,
     name |-> NameExpr(fn_item, item.ident),
     description |-> DescriptionExpr(fn_item, item.attrs),
     schema |-> SchemaExpr(params, item.ident),
     annotations |-> AnnotationsCode(fn_item)]

\* --------------------------------------------------- dispatch wrapper code
\* `let (pat, context) = <ty>::from_tool_call_context_part(context)?;`
ExtractStmt(ty, binds) ==
    [op |-> "from_tool_call_context_part", ty |-> ty,
     uses |-> {CONTEXT_IDENT}, binds |-> binds \cup {CONTEXT_IDENT}]

\* `let Ty { fields, } = parse_json_object(__rmcp_tool_req)?;`
ParseStmt(ty, binds) ==
    [op |-> "parse_json_object", ty |-> ty, uses |-> {REQ_BINDING}, binds |-> binds]

\* tool_fn_item, trivial_args: the arguments whose index was not recorded
RECURSIVE TrivialArgsFrom(_, _, _)
TrivialArgsFrom(inputs, unextractable, idx) ==
    IF idx > Len(inputs) THEN <<>>
    ELSE (IF idx \in unextractable THEN <<>>
          ELSE IF inputs[idx].kind = "Typed"
          THEN <<ExtractStmt(inputs[idx].ty, PatVars(inputs[idx].pat))>>
          ELSE <<ExtractStmt(inputs[idx].ty, {RECEIVER_IDENT})>>)
         \o TrivialArgsFrom(inputs, unextractable, idx + 1)

TrivialArgExtractionPart(inputs, unextractable) == TrivialArgsFrom(inputs, unextractable, 1)

ParamIdents(attrs) == {attrs[i].ident : i \in DOMAIN attrs}

\* tool_fn_item, processed_arg_extraction_part
ProcessedArgExtractionPart(params, ident) ==
    CASE params.kind = "Aggregated" ->
            LET pt == Unwrap(params.rust_type)
            IN <<ExtractStmt("Parameters<" \o pt.ty \o ">", PatVars(pt.pat))>>
      [] params.kind = "Params" ->
            <<ExtractStmt(JSON_OBJECT, {REQ_BINDING}),
              ParseStmt(CreateRequestType(params.attrs, ident).name, ParamIdents(params.attrs))>>
      [] OTHER -> <<>>

\* tool_fn_item, `let params = ...`: one call argument per declared input
CallArg(fn_arg) == IF fn_arg.kind = "Receiver" THEN RECEIVER_IDENT ELSE fn_arg.pat
CallArgs(inputs) == [i \in DOMAIN inputs |-> CallArg(inputs[i])]
ArgVars(arg) == IF arg = RECEIVER_IDENT THEN {RECEIVER_IDENT} ELSE PatExprVars(arg)

\* the statements of the wrapper body, in emitted order
WrapperStmts(inputs, unextractable, params, ident) ==
    TrivialArgExtractionPart(inputs, unextractable) \o ProcessedArgExtractionPart(params, ident)

ToolCallFnAwaitAlways(fn_item, item, params, unextractable) ==
    [ident |-> ToolCallFnIdent(item.ident),
     vis |-> IF IsSome(fn_item.vis) THEN Unwrap(fn_item.vis) ELSE item.vis,
     attrs |-> SelectSeq(item.attrs, LAMBDA a : a.path /= TOOL_IDENT),
     asyncness |-> TRUE,
     stmts |-> WrapperStmts(item.inputs, unextractable, params, item.ident),
     call |-> [fn |-> item.ident, args |-> CallArgs(item.inputs), await |-> TRUE]]

\* the wrapper function emitted by tool_fn_item (`async fn` whatever the
\* original is; the call awaits only an asynchronous original)
ToolCallFn(fn_item, item, params, unextractable) ==
    [ident |-> ToolCallFnIdent(item.ident),
     vis |-> IF IsSome(fn_item.vis) THEN Unwrap(fn_item.vis) ELSE item.vis,
     attrs |-> SelectSeq(item.attrs, LAMBDA a : a.path /= TOOL_IDENT),
     asyncness |-> TRUE,
     stmts |-> WrapperStmts(item.inputs, unextractable, params, item.ident),
     call |-> [fn |-> item.ident, args |-> CallArgs(item.inputs), await |-> item.asyncness]]

\* rustc's name resolution over the wrapper body: every statement and the
\* call read only names bound before them
RECURSIVE EnvAfter(_, _)
EnvAfter(stmts, env) ==
    IF stmts = <<>> THEN env ELSE EnvAfter(Tail(stmts), env \cup Head(stmts).binds)

RECURSIVE StmtsResolve(_, _)
StmtsResolve(stmts, env) ==
    IF stmts = <<>> THEN TRUE
    ELSE Head(stmts).uses \subseteq env /\ StmtsResolve(Tail(stmts), env \cup Head(stmts).binds)

CallVars(call) == UNION {ArgVars(call.args[i]) : i \in DOMAIN call.args}

WrapperResolves(w) ==
    /\ StmtsResolve(w.stmts, {CONTEXT_IDENT})
    /\ CallVars(w.call) \subseteq EnvAfter(w.stmts, {CONTEXT_IDENT})

\* ------------------------------------------------------ generated runtime
\* rmcp::model::ToolAnnotations, as far as the model needs it: `title` is a
\* string; serde rejects a value of another kind.
AnnKeys == {"title"}
LitKinds == {"Str", "Bool"}
AnnotationTables == [AnnKeys -> LitKinds]
FitsToolAnnotations(table) == table["title"] = "Str"

\* cached_schema_for_type::<T>(): the schema of T, one value per type
ResolveType(schema) ==
    IF IsSome(schema.decl) /\ Unwrap(schema.decl).name = schema.ty
    THEN [kind |-> "struct", name |-> schema.ty, fields |-> Unwrap(schema.decl).fields]
    ELSE [kind |-> "named", name |-> schema.ty, fields |-> <<>>]
CachedSchemaForType(ty) == [schema_of |-> ty]

\* the value of the emitted description expression
EvalDescription(e) == IF e.kind = "trim_to_string" THEN Trim(e.text) ELSE e.text

NoTool ==
    [status |-> "none", name |-> "", description |-> <<>>,
     input_schema |-> CachedSchemaForType(ResolveType([ty |-> EMPTY_OBJECT, decl |-> None])),
     annotations |-> None]

\* calling the emitted accessor: the rmcp::model::Tool it returns, or the
\* panic of `expect`
EvalToolAttrFn(f) ==
    IF f.annotations.kind /= "None" /\ ~FitsToolAnnotations(Unwrap(f.annotations.json))
    THEN [NoTool EXCEPT !.status = "panic"]
    ELSE [status |-> "ok",
          name |-> f.name.text,
          description |-> EvalDescription(f.description),
          input_schema |-> CachedSchemaForType(ResolveType(f.schema)),
          annotations |-> f.annotations.json]

\* ---------------------------------------------------------------- state
VARIABLES
    fn_tokens,    \* the attribute arguments `attr` handed to tool_fn_item
    fn_attr,      \* ToolFnItemAttrs parsed from the attribute arguments
    input_fn,     \* the ItemFn under the attribute
    pc,           \* "classify" | "returned" (function item), "aggregate" | "returned" (impl)
    index,        \* the loop position in input_fn.sig.inputs
    loop,         \* tool_macro_attrs.params, unextractable_args_indexes, early return
    fn_out,       \* Ok(tokens): the accessor and wrapper emitted by tool_fn_item
    tool,         \* what the accessor returned when called
    run           \* one execution of the dispatch wrapper

fn_vars == <<fn_tokens, fn_attr, input_fn, pc, index, loop, fn_out, tool, run>>

VARIABLES
    impl_tokens,     \* the attribute arguments of an impl block, as tokens
    input_impl,      \* the ItemImpl under the attribute
    impl_pc,         \* "parse" | "collect" | "emit" | "returned"
    impl_attr,       \* ToolImplItemAttrs, once parsed
    item_index,      \* the loop position in input.items
    tool_fn_idents,  \* the methods collected so far
    impl_out,        \* what tool_impl_item returned
    response         \* the answer of the generated router or listing to one request

impl_vars ==
    <<impl_tokens, input_impl, impl_pc, impl_attr, item_index, tool_fn_idents, impl_out, response>>

vars == <<fn_vars, impl_vars>>

NoAttrFn ==
    [ident |-> "", attrs |-> <<>>, vis |-> "", name |-> [kind |-> "none", text |-> ""],
     description |-> [kind |-> "none", text |-> <<>>],
     schema |-> [ty |-> "", decl |-> None],
     annotations |-> [kind |-> "None", json |-> None]]
NoCallFn ==
    [ident |-> "", vis |-> "", attrs |-> <<>>, asyncness |-> FALSE, stmts |-> <<>>,
     call |-> [fn |-> "", args |-> <<>>, await |-> FALSE]]
NoFnOut == [status |-> "none", err |-> "", tool_attr_fn |-> NoAttrFn, tool_call_fn |-> NoCallFn]

IdleRun ==
    [pc |-> "idle", next |-> 1, env |-> {CONTEXT_IDENT}, ctx |-> 0, trace |-> <<>>,
     invoked |-> 0, ret |-> "none"]

\* ItemFn
ItemFn(ident, asyncness, vis, attrs, inputs) ==
    [ident |-> ident, asyncness |-> asyncness, vis |-> vis, attrs |-> attrs, inputs |-> inputs]

\* ToolFnItemAttrs
FnItemAttrs(name, description, vis, aggr, annotations) ==
    [name |-> name, description |-> description, vis |-> vis, aggr |-> aggr,
     annotations |-> annotations]

DocTexts == SeqsUpTo(Chars, MaxLineLen)
OuterAttrs == {DocAttr(t) : t \in DocTexts} \cup {OtherAttr("inline")}
InputLists == {r \o t : r \in {<<>>, <<Receiver>>}, t \in SeqsUpTo(TypedArgs, MaxParams)}
DescriptionExprs == {<<"d">>, <<" ", "d">>}

\* ------------------------------------------------------------ impl blocks
\* ToolImplItemAttrs
ImplAttrs(tool_box, default_build, description) ==
    [tool_box |-> tool_box, default_build |-> default_build, description |-> description]

Punct == {"=", ","}
Keywords == {"true", "false", "pub"}
StrLits == {"str:d", "str: d", "str:x"}
\* a brace-delimited group is one token tree
Groups == {"{title: str}", "{title: bool}", "{title: 1}"}
\* syn's Ident parser takes a word that is no keyword; its Expr parser takes
\* a word or a literal (one token here)
IsIdentTok(t) == t \notin Punct /\ t \notin Keywords /\ t \notin StrLits /\ t \notin Groups
IsExprTok(t) == t \notin Punct /\ t /= "pub"

ParseOk(a) == [status |-> "Ok", err |-> "", attrs |-> a]
ParseErr(msg) == [status |-> "Err", err |-> msg, attrs |-> ImplAttrs(None, TRUE, None)]

\* <ToolImplItemAttrs as Parse>::parse: the loop body for one key, then the
\* separator
RECURSIVE ParseImplKey(_, _)
ParseImplSep(input, a) ==
    IF input = <<>> THEN ParseOk(a)
    ELSE IF Head(input) = "," THEN ParseImplKey(Tail(input), a)
    ELSE ParseErr("expected comma")

ParseImplKey(input, a) ==
    IF input = <<>> THEN ParseOk(a)
    ELSE IF ~IsIdentTok(Head(input)) THEN ParseErr("expected identifier")
    ELSE LET key == Head(input)
             rest == Tail(input)
             hasEq == rest /= <<>> /\ Head(rest) = "="
             value == IF hasEq /\ Len(rest) >= 2 THEN Some(rest[2]) ELSE None
             after == IF Len(rest) >= 2 THEN SubSeq(rest, 3, Len(rest)) ELSE <<>>
         IN CASE key = "tool_box" ->
                    IF hasEq
                    THEN IF IsSome(value) /\ IsIdentTok(Unwrap(value))
                         THEN ParseImplSep(after, [a EXCEPT !.tool_box = Some(value)])
                         ELSE ParseErr("expected identifier")
                    ELSE ParseImplSep(rest, [a EXCEPT !.tool_box = Some(None)])
              [] key = "default_build" ->
                    IF hasEq
                    THEN IF ~(IsSome(value) /\ IsExprTok(Unwrap(value)))
                         THEN ParseErr("expected expression")
                         ELSE IF Unwrap(value) = "true"
                         THEN ParseImplSep(after, [a EXCEPT !.default_build = TRUE])
                         ELSE IF Unwrap(value) = "false"
                         THEN ParseImplSep(after, [a EXCEPT !.default_build = FALSE])
                         ELSE ParseErr("unknown attribute")
                    ELSE ParseImplSep(rest, [a EXCEPT !.default_build = TRUE])
              [] key = "description" ->
                    IF hasEq
                    THEN IF IsSome(value) /\ IsExprTok(Unwrap(value))
                         THEN ParseImplSep(after, [a EXCEPT !.description = value])
                         ELSE ParseErr("expected expression")
                    ELSE ParseImplSep(rest, a)
              [] OTHER -> ParseErr("unknown attribute")

ParseImplAttrs(input) == ParseImplKey(input, ImplAttrs(None, TRUE, None))

\* ------------------------------------------- function attribute arguments
AGGREGATED_IDENT == "aggr"
MSG_UNKNOWN_ATTRIBUTE == "unknown attribute"
MSG_ANNOTATION_LITERAL == "annotations must be string or boolean literals"

\* the value of a parsed `name` expression and of a parsed `description`
\* expression (a string literal's content; any other expression stands for
\* itself)
NameOfExpr(t) == IF t = "str:x" THEN "x" ELSE t
TextOfExpr(t) ==
    CASE t = "str:d" -> <<"d">>
      [] t = "str: d" -> <<" ", "d">>
      [] OTHER -> <<>>

\* <ToolAnnotationAttrs as Parse>::parse on the content of the braces
ParseAnnotations(group) ==
    CASE group = "{title: str}" -> [status |-> "Ok", err |-> "", table |-> [title |-> "Str"]]
      [] group = "{title: bool}" -> [status |-> "Ok", err |-> "", table |-> [title |-> "Bool"]]
      [] OTHER -> [status |-> "Err", err |-> MSG_ANNOTATION_LITERAL, table |-> [title |-> "Str"]]

ParseFnOk(a) == [status |-> "Ok", err |-> "", attrs |-> a]
ParseFnErr(msg) ==
    [status |-> "Err", err |-> msg, attrs |-> FnItemAttrs(None, None, None, FALSE, None)]

\* <ToolFnItemAttrs as Parse>::parse: the loop body for one key; the marker
\* `continue`s to the next key without the separator
RECURSIVE ParseFnKey(_, _)
ParseFnSep(input, a) ==
    IF input = <<>> THEN ParseFnOk(a)
    ELSE IF Head(input) = "," THEN ParseFnKey(Tail(input), a)
    ELSE ParseFnErr("expected comma")

ParseFnKey(input, a) ==
    IF input = <<>> THEN ParseFnOk(a)
    ELSE IF ~IsIdentTok(Head(input)) THEN ParseFnErr("expected identifier")
    ELSE LET key == Head(input)
             rest == Tail(input)
             value == IF rest = <<>> THEN <<>> ELSE Tail(rest)
         IN IF key = AGGREGATED_IDENT
            THEN ParseFnKey(rest, [a EXCEPT !.aggr = TRUE])
            ELSE IF rest = <<>> \/ Head(rest) /= "="
            THEN ParseFnErr("expected =")
            ELSE CASE key = "name" ->
                        IF value /= <<>> /\ IsExprTok(Head(value))
                        THEN ParseFnSep(Tail(value),
                                        [a EXCEPT !.name = Some(NameOfExpr(Head(value)))])
                        ELSE ParseFnErr("expected expression")
                   [] key = "description" ->
                        IF value /= <<>> /\ IsExprTok(Head(value))
                        THEN ParseFnSep(Tail(value),
                                        [a EXCEPT !.description = Some(TextOfExpr(Head(value)))])
                        ELSE ParseFnErr("expected expression")
                   [] key = "vis" ->
                        IF value /= <<>> /\ Head(value) = "pub"
                        THEN ParseFnSep(Tail(value), [a EXCEPT !.vis = Some("pub")])
                        ELSE ParseFnSep(value, [a EXCEPT !.vis = Some("")])
                   [] key = "annotations" ->
                        IF value = <<>> \/ Head(value) \notin Groups
                        THEN ParseFnErr("expected curly braces")
                        ELSE LET r == ParseAnnotations(Head(value))
                             IN IF r.status = "Err" THEN ParseFnErr(r.err)
                                ELSE ParseFnSep(Tail(value),
                                                [a EXCEPT !.annotations = Some(r.table)])
                   [] OTHER -> ParseFnErr(MSG_UNKNOWN_ATTRIBUTE)

ParseFnAttrs(input) == ParseFnKey(input, FnItemAttrs(None, None, None, FALSE, None))

\* a method of the block and its attributes; a tool marker may carry a name
ToolMarker(name) == [path |-> TOOL_IDENT, name |-> name, annotations |-> None]
\* `#[tool(annotations = { ... })]` on a method
ToolMarkerAnn(name, annotations) ==
    [path |-> TOOL_IDENT, name |-> name, annotations |-> annotations]
PlainAttr(p) == [path |-> p, name |-> None, annotations |-> None]
Method(ident, attrs) == [ident |-> ident, attrs |-> attrs]

\* ItemImpl
ItemImpl(trait_, generics, items) ==
    [trait_ |-> trait_, generics |-> generics, self_ty |-> "Calc", items |-> items]

CountMarkers(attrs) == Cardinality({i \in DOMAIN attrs : attrs[i].path = TOOL_IDENT})
IsToolMarked(m) == CountMarkers(m.attrs) > 0

RECURSIVE Repeat(_, _)
Repeat(x, n) == IF n = 0 THEN <<>> ELSE <<x>> \o Repeat(x, n - 1)

\* tool_impl_item, the inner loop `for attr in &method.attrs`: one push per
\* attribute whose path is `tool`
CollectMethod(m) == Repeat(m.ident, CountMarkers(m.attrs))

\* what tool_impl_item pushes into the block or appends after it
Emitted(kind, arms, tools, idents, binding) ==
    [kind |-> kind, arms |-> arms, tools |-> tools, idents |-> idents, binding |-> binding]

MatchArm(ident) ==
    [ident |-> ident, attr_fn |-> ident \o "_tool_attr", call_fn |-> ident \o "_tool_call"]

MatchArmsReversed(idents) == [i \in DOMAIN idents |-> MatchArm(idents[Len(idents) + 1 - i])]

\* tool_impl_item, match_arms
MatchArms(idents) == [i \in DOMAIN idents |-> MatchArm(idents[i])]
\* tool_impl_item, tool_attrs
ToolAttrsOf(idents) == [i \in DOMAIN idents |-> idents[i] \o "_tool_attr"]

ImplOk(items, extend) == [status |-> "Ok", err |-> "", items |-> items, extend |-> extend]
ImplErr(msg) == [status |-> "Err", err |-> msg, items |-> <<>>, extend |-> None]
NoImplOut == [status |-> "none", err |-> "", items |-> <<>>, extend |-> None]

HandlerImpl(kind, binding) == Emitted(kind, <<>>, <<>>, <<>>, binding)

EmitImplRequiresIdent(a, input, idents) ==
    IF input.trait_
    THEN IF IsSome(a.tool_box) /\ IsSome(Unwrap(a.tool_box))
         THEN IF input.generics
              THEN ImplOk(<<Emitted("forward call_tool", <<>>, <<>>, <<>>, None),
                            Emitted("forward list_tools", <<>>, <<>>, <<>>, None)>>, None)
              ELSE ImplOk(<<Emitted("tool_box!(@derive)", <<>>, <<>>, <<>>, Unwrap(a.tool_box))>>, None)
         ELSE ImplErr(MSG_TOOL_BOX_REQUIRED)
    ELSE ImplOk(<<>>, None)

EmitImplHandlerAlways(a, input, idents) ==
    IF input.trait_
    THEN IF IsSome(a.tool_box)
         THEN IF input.generics
              THEN ImplOk(<<Emitted("forward call_tool", <<>>, <<>>, <<>>, None),
                            Emitted("forward list_tools", <<>>, <<>>, <<>>, None)>>, None)
              ELSE ImplOk(<<Emitted("tool_box!(@derive)", <<>>, <<>>, <<>>, Unwrap(a.tool_box))>>, None)
         ELSE ImplErr(MSG_TOOL_BOX_REQUIRED)
    ELSE IF IsSome(a.tool_box)
    THEN IF input.generics
         THEN ImplOk(<<Emitted("call_tool_inner", MatchArms(idents), <<>>, <<>>, None),
                       Emitted("list_tools_inner", <<>>, ToolAttrsOf(idents), <<>>, None)>>,
                     Some(HandlerImpl("impl ServerHandler: inner", None)))
         ELSE ImplOk(<<Emitted("tool_box!", <<>>, <<>>, idents, Unwrap(a.tool_box))>>,
                     Some(HandlerImpl("impl ServerHandler: derive", Unwrap(a.tool_box))))
    ELSE ImplOk(<<>>, None)

\* tool_impl_item, `// handle different cases`
EmitImpl(a, input, idents) ==
    IF input.trait_
    THEN IF IsSome(a.tool_box)
         THEN IF input.generics
              THEN ImplOk(<<Emitted("forward call_tool", <<>>, <<>>, <<>>, None),
                            Emitted("forward list_tools", <<>>, <<>>, <<>>, None)>>, None)
              ELSE ImplOk(<<Emitted("tool_box!(@derive)", <<>>, <<>>, <<>>, Unwrap(a.tool_box))>>, None)
         ELSE ImplErr(MSG_TOOL_BOX_REQUIRED)
    ELSE IF IsSome(a.tool_box)
    THEN IF input.generics
         THEN ImplOk(<<Emitted("call_tool_inner", MatchArms(idents), <<>>, <<>>, None),
                       Emitted("list_tools_inner", <<>>, ToolAttrsOf(idents), <<>>, None)>>,
                     IF a.default_build
                     THEN Some(HandlerImpl("impl ServerHandler: inner", None))
                     ELSE None)
         ELSE ImplOk(<<Emitted("tool_box!", <<>>, <<>>, idents, Unwrap(a.tool_box))>>,
                     IF a.default_build
                     THEN Some(HandlerImpl("impl ServerHandler: derive", Unwrap(a.tool_box)))
                     ELSE None)
    ELSE ImplOk(<<>>, None)

\* the name in the descriptor of a method's accessor: tool_fn_item names it
\* from the arguments of the marker it expands
FirstMarker(attrs) == attrs[CHOOSE i \in DOMAIN attrs :
                              /\ attrs[i].path = TOOL_IDENT
                              /\ \A j \in 1..(i - 1) : attrs[j].path /= TOOL_IDENT]
DescriptorName(m) ==
    NameExpr([name |-> FirstMarker(m.attrs).name], m.ident).text
MethodNamed(input, ident) ==
    input.items[CHOOSE i \in DOMAIN input.items : input.items[i].ident = ident]

\* `Self::<ident>_tool_attr()` for a method of the block: the accessor
\* tool_fn_item emits for the marker it expands, called
MethodToolAttr(m) ==
    LET marker == FirstMarker(m.attrs)
    IN EvalToolAttrFn(ToolAttrFn(
           FnItemAttrs(marker.name, None, None, FALSE, marker.annotations),
           ItemFn(m.ident, FALSE, "", <<>>, <<>>), NoParam))
MethodOfAccessor(input, attr_fn) ==
    input.items[CHOOSE i \in DOMAIN input.items :
                    ToolAttrFnIdent(FnItemAttrs(None, None, None, FALSE, None),
                                    input.items[i].ident) = attr_fn]
MSG_EXPECT_ANNOTATIONS == "Could not parse tool annotations"

NoResponse ==
    [kind |-> "none", request |-> "", wrapper |-> "", arm |-> 0, tools |-> <<>>,
     next_cursor |-> None, error |-> ""]

\* the generated call_tool_inner: `match tcc.name()` tries the arms in order
RECURSIVE Route(_, _, _, _)
Route(arms, name, input, i) ==
    IF i > Len(arms)
    THEN [NoResponse EXCEPT !.kind = "error", !.request = name,
                            !.error = "invalid_params: " \o MSG_TOOL_NOT_FOUND]
    ELSE IF MethodToolAttr(MethodNamed(input, arms[i].ident)).status = "panic"
    THEN [NoResponse EXCEPT !.kind = "panic", !.request = name, !.arm = i,
                            !.error = MSG_EXPECT_ANNOTATIONS]
    ELSE IF name = DescriptorName(MethodNamed(input, arms[i].ident))
    THEN [NoResponse EXCEPT !.kind = "called", !.request = name,
                            !.wrapper = arms[i].call_fn, !.arm = i]
    ELSE Route(arms, name, input, i + 1)

\* the generated list_tools_inner
ListTools(tools, input) ==
    IF \E i \in DOMAIN tools :
          MethodToolAttr(MethodOfAccessor(input, tools[i])).status = "panic"
    THEN [NoResponse EXCEPT !.kind = "panic", !.error = MSG_EXPECT_ANNOTATIONS]
    ELSE [NoResponse EXCEPT
             !.kind = "list",
             !.tools = [i \in DOMAIN tools |-> tools[i]],
             !.next_cursor = None]

ImplIdle ==
    /\ impl_tokens = <<>>
    /\ input_impl = ItemImpl(FALSE, FALSE, <<>>)
    /\ impl_pc = "idle"
    /\ impl_attr = ImplAttrs(None, TRUE, None)
    /\ item_index = 1
    /\ tool_fn_idents = <<>>
    /\ impl_out = NoImplOut
    /\ response = NoResponse

FnIdle ==
    /\ fn_tokens = <<>>
    /\ fn_attr = FnItemAttrs(None, None, None, FALSE, None)
    /\ input_fn = ItemFn("", FALSE, "", <<>>, <<>>)
    /\ pc = "idle"
    /\ index = 1
    /\ loop = LoopState(NoParam, {}, None)
    /\ fn_out = NoFnOut
    /\ tool = NoTool
    /\ run = IdleRun

InitFnWith(texts, items) ==
    /\ fn_tokens \in texts
    /\ fn_attr = FnItemAttrs(None, None, None, FALSE, None)
    /\ input_fn \in items
    /\ pc = "parse"
    /\ index = 1
    /\ loop = LoopState(NoParam, {}, None)
    /\ fn_out = NoFnOut
    /\ tool = NoTool
    /\ run = IdleRun
    /\ ImplIdle

\* ------------------------------------------------------------ tool_fn_item
\* `let args: ToolFnItemAttrs = syn::parse2(attr)?;`
ParseFnAttr ==
    /\ pc = "parse"
    /\ LET r == ParseFnAttrs(fn_tokens)
       IN IF r.status = "Ok"
          THEN /\ fn_attr' = r.attrs
               /\ pc' = "classify"
               /\ fn_out' = fn_out
          ELSE /\ fn_attr' = fn_attr
               /\ pc' = "returned"
               /\ fn_out' = [NoFnOut EXCEPT !.status = "Err", !.err = r.err]
    /\ UNCHANGED <<fn_tokens, input_fn, index, loop, tool, run>>
    /\ UNCHANGED impl_vars

\* one iteration of `for (index, fn_arg) in input_fn.sig.inputs.iter_mut().enumerate()`
Classify ==
    /\ pc = "classify"
    /\ index <= Len(input_fn.inputs)
    /\ LET st == ClassifyArg(input_fn.inputs[index], index, fn_attr.aggr, loop)
       IN /\ loop' = st
          /\ IF IsSome(st.err)
             THEN /\ pc' = "returned"
                  /\ fn_out' = [NoFnOut EXCEPT !.status = "Err", !.err = Unwrap(st.err)]
                  /\ index' = index
             ELSE /\ index' = index + 1
                  /\ UNCHANGED <<pc, fn_out>>
    /\ UNCHANGED <<fn_tokens, fn_attr, input_fn, tool, run>>
    /\ UNCHANGED impl_vars

\* the rest of tool_fn_item after the loop: Ok(quote!{ accessor wrapper input_fn })
Emit ==
    /\ pc = "classify"
    /\ index > Len(input_fn.inputs)
    /\ pc' = "returned"
    /\ fn_out' = [status |-> "Ok", err |-> "",
                  tool_attr_fn |-> ToolAttrFn(fn_attr, input_fn, loop.params),
                  tool_call_fn |-> ToolCallFn(fn_attr, input_fn, loop.params, loop.unextractable)]
    /\ UNCHANGED <<fn_tokens, fn_attr, input_fn, index, loop, tool, run>>
    /\ UNCHANGED impl_vars

\* the emitted code is part of a program only if it compiles
Compiled == pc = "returned" /\ fn_out.status = "Ok" /\ WrapperResolves(fn_out.tool_call_fn)

\* a call of <ident>_tool_attr()
ToolAttrCall ==
    /\ Compiled
    /\ tool.status = "none"
    /\ tool' = EvalToolAttrFn(fn_out.tool_attr_fn)
    /\ UNCHANGED <<fn_tokens, fn_attr, input_fn, pc, index, loop, fn_out, run>>
    /\ UNCHANGED impl_vars

\* a call of <ident>_tool_call(context)
WrapperEnter ==
    /\ Compiled
    /\ run.pc = "idle"
    /\ run' = [run EXCEPT !.pc = "running"]
    /\ UNCHANGED <<fn_tokens, fn_attr, input_fn, pc, index, loop, fn_out, tool>>
    /\ UNCHANGED impl_vars

StepFailureIgnored(r, stmt, ok) ==
    [r EXCEPT !.next = r.next + 1,
              !.env = r.env \cup stmt.binds,
              !.ctx = IF CONTEXT_IDENT \in stmt.binds THEN r.ctx + 1 ELSE r.ctx,
              !.trace = Append(r.trace, [stmt |-> r.next, ctx_in |-> r.ctx, ok |-> ok])]

\* one `let ... = ...?;` of the wrapper body: on Ok bind and go on, on Err return it
StepStmt(r, stmt, ok) ==
    IF ok
    THEN [r EXCEPT !.next = r.next + 1,
                   !.env = r.env \cup stmt.binds,
                   !.ctx = IF CONTEXT_IDENT \in stmt.binds THEN r.ctx + 1 ELSE r.ctx,
                   !.trace = Append(r.trace, [stmt |-> r.next, ctx_in |-> r.ctx, ok |-> TRUE])]
    ELSE [r EXCEPT !.pc = "done",
                   !.ret = "Err:" \o stmt.op,
                   !.trace = Append(r.trace, [stmt |-> r.next, ctx_in |-> r.ctx, ok |-> FALSE])]

WrapperStep ==
    /\ run.pc = "running"
    /\ run.next <= Len(fn_out.tool_call_fn.stmts)
    /\ \E ok \in BOOLEAN :
          run' = StepStmt(run, fn_out.tool_call_fn.stmts[run.next], ok)
    /\ UNCHANGED <<fn_tokens, fn_attr, input_fn, pc, index, loop, fn_out, tool>>
    /\ UNCHANGED impl_vars

\* `Self::f(args)[.await].into_call_tool_result()`: the original logic runs
WrapperInvoke ==
    /\ run.pc = "running"
    /\ run.next > Len(fn_out.tool_call_fn.stmts)
    /\ \E r \in {"Ok", "Err:tool"} :
          run' = [run EXCEPT !.pc = "done", !.invoked = run.invoked + 1, !.ret = r]
    /\ UNCHANGED <<fn_tokens, fn_attr, input_fn, pc, index, loop, fn_out, tool>>
    /\ UNCHANGED impl_vars

NextFn == ParseFnAttr \/ Classify \/ Emit \/ ToolAttrCall \/ WrapperEnter \/ WrapperStep \/ WrapperInvoke


\* ----------------------------------------------------------- tool_impl_item
\* `let tool_impl_attr: ToolImplItemAttrs = syn::parse2(attr)?;`
ParseImplAttr ==
    /\ impl_pc = "parse"
    /\ LET r == ParseImplAttrs(impl_tokens)
       IN IF r.status = "Ok"
          THEN /\ impl_attr' = r.attrs
               /\ impl_pc' = "collect"
               /\ UNCHANGED impl_out
          ELSE /\ impl_out' = ImplErr(r.err)
               /\ impl_pc' = "returned"
               /\ UNCHANGED impl_attr
    /\ UNCHANGED <<impl_tokens, input_impl, item_index, tool_fn_idents, response>>
    /\ UNCHANGED fn_vars

\* one iteration of `for item in &input.items`
Collect ==
    /\ impl_pc = "collect"
    /\ item_index <= Len(input_impl.items)
    /\ tool_fn_idents' = tool_fn_idents \o CollectMethod(input_impl.items[item_index])
    /\ item_index' = item_index + 1
    /\ UNCHANGED <<impl_tokens, input_impl, impl_pc, impl_attr, impl_out, response>>
    /\ UNCHANGED fn_vars

\* the rest of tool_impl_item
EmitImplItem ==
    /\ impl_pc = "collect"
    /\ item_index > Len(input_impl.items)
    /\ impl_out' = EmitImpl(impl_attr, input_impl, tool_fn_idents)
    /\ impl_pc' = "returned"
    /\ UNCHANGED <<impl_tokens, input_impl, impl_attr, item_index, tool_fn_idents, response>>
    /\ UNCHANGED fn_vars

HasRouter ==
    /\ impl_pc = "returned"
    /\ impl_out.status = "Ok"
    /\ Len(impl_out.items) = 2
    /\ impl_out.items[1].kind = "call_tool_inner"

RequestNames == {"f", "g", "h", "zz"}

\* a request to the generated call_tool_inner
CallToolInner ==
    /\ HasRouter
    /\ \E name \in RequestNames :
          response' = Route(impl_out.items[1].arms, name, input_impl, 1)
    /\ UNCHANGED <<impl_tokens, input_impl, impl_pc, impl_attr, item_index, tool_fn_idents, impl_out>>
    /\ UNCHANGED fn_vars

\* a request to the generated list_tools_inner
ListToolsInner ==
    /\ HasRouter
    /\ response' = ListTools(impl_out.items[2].tools, input_impl)
    /\ UNCHANGED <<impl_tokens, input_impl, impl_pc, impl_attr, item_index, tool_fn_idents, impl_out>>
    /\ UNCHANGED fn_vars

NextImpl == ParseImplAttr \/ Collect \/ EmitImplItem \/ CallToolInner \/ ListToolsInner

MethodIdents == {"f", "g", "h"}
MethodAttrLists ==
    {<<>>, <<ToolMarker(None)>>, <<ToolMarker(Some("f"))>>, <<PlainAttr("inline")>>,
     <<PlainAttr("inline"), ToolMarker(None)>>, <<ToolMarker(None), ToolMarker(None)>>,
     <<ToolMarkerAnn(None, Some([title |-> "Str"]))>>,
     <<ToolMarkerAnn(None, Some([title |-> "Bool"]))>>}
Methods == {Method(i, a) : i \in MethodIdents, a \in MethodAttrLists}
\* the methods of one block have distinct names
MethodLists ==
    {ms \in SeqsUpTo(Methods, MaxMethods) :
        \A i, j \in DOMAIN ms : i /= j => ms[i].ident /= ms[j].ident}
ImplAttrTexts ==
    {<<>>, <<"tool_box">>, <<"tool_box", "=", "Calc">>,
     <<"tool_box", "=", "Calc", ",", "default_build", "=", "false">>,
     <<"default_build">>, <<"bogus">>, <<"tool_box", ",", "bogus">>,
     <<"tool_box", ",", "default_build">>,
     <<"tool_box", ",", "default_build", "=", "false", ",", "default_build", "=", "true">>,
     <<"default_build", "=", "true", ",", "tool_box", ",", "default_build", "=", "false">>}

InitImpl ==
    /\ FnIdle
    /\ impl_tokens \in ImplAttrTexts
    /\ input_impl \in {ItemImpl(t, g, ms) : t \in BOOLEAN, g \in BOOLEAN, ms \in MethodLists}
    /\ impl_pc = "parse"
    /\ impl_attr = ImplAttrs(None, TRUE, None)
    /\ item_index = 1
    /\ tool_fn_idents = <<>>
    /\ impl_out = NoImplOut
    /\ response = NoResponse

SpecImpl == InitImpl /\ [][NextImpl]_vars

\* the entries of an attribute argument list, written with separating commas
\* (an absent entry is the empty sequence)
RECURSIVE JoinComma(_)
JoinComma(entries) ==
    IF entries = <<>> THEN <<>>
    ELSE IF Head(entries) = <<>> THEN JoinComma(Tail(entries))
    ELSE LET more == JoinComma(Tail(entries))
         IN IF more = <<>> THEN Head(entries) ELSE Head(entries) \o <<",">> \o more

\* function items with every argument list
FnAttrsWide ==
    {JoinComma(<<n, an, g>>) :
        n \in {<<>>, <<"name", "=", "str:x">>},
        an \in {<<>>, <<"annotations", "=", "{title: str}">>,
                 <<"annotations", "=", "{title: bool}">>},
        g \in {<<>>, <<AGGREGATED_IDENT>>}}
ItemFnsWide ==
    {ItemFn(i, a, "", <<DocAttr(<<"a">>)>>, ins) :
        i \in FnIdents, a \in BOOLEAN, ins \in InputLists}

Init == InitFnWith(FnAttrsWide, ItemFnsWide)
Spec == Init /\ [][NextFn]_vars

\* function items with every documentation comment
FnAttrsDoc ==
    {JoinComma(<<d, v>>) :
        d \in {<<>>, <<"description", "=", "str:d">>, <<"description", "=", "str: d">>},
        v \in {<<>>, <<"vis", "=", "pub">>}}
ItemFnsDoc ==
    {ItemFn("add", FALSE, "", attrs, ins) :
        attrs \in SeqsUpTo(OuterAttrs, MaxDocs),
        ins \in {<<Receiver, Typed("a", "i32")>>}}

InitDoc == InitFnWith(FnAttrsDoc, ItemFnsDoc)
SpecDoc == InitDoc /\ [][NextFn]_vars

\* function items with every attribute argument list
FnEntries ==
    {<<"name", "=", "str:x">>, <<"description", "=", "str:d">>, <<"vis", "=", "pub">>,
     <<"vis", "=">>, <<"annotations", "=", "{title: str}">>, <<AGGREGATED_IDENT>>,
     <<"bogus", "=", "str:x">>, <<"bogus">>}
FnAttrTexts == {JoinComma(es) : es \in SeqsUpTo(FnEntries, MaxEntries)}
ItemFnsAttr ==
    {ItemFn("add", a, "", <<>>, <<Receiver, Typed("a", "Req")>>) : a \in BOOLEAN}

InitAttr == InitFnWith(FnAttrTexts, ItemFnsAttr)
SpecAttr == InitAttr /\ [][NextFn]_vars


\* ------------------------------------------------------------------ claims
TypedInputs(item) == SelectSeq(item.inputs, LAMBDA a : a.kind = "Typed")
HasReceiver(item) == Len(item.inputs) > 0 /\ item.inputs[1].kind = "Receiver"

\* C1: a declaration with the aggregation marker and two or more typed
\* parameters is rejected by tool_fn_item with the mixed-kinds error and
\* nothing is emitted; an accepted declaration never holds an aggregated and
\* a structured parameter together.
C1_MixedRejected ==
    /\ (pc = "returned" /\ fn_attr.aggr /\ Len(TypedInputs(input_fn)) >= 2)
          => (fn_out.status = "Err" /\ fn_out.err = MSG_MIXED
              /\ fn_out.tool_attr_fn = NoAttrFn /\ fn_out.tool_call_fn = NoCallFn)
    /\ fn_out.status = "Ok"
          => ~(loop.params.kind = "Aggregated" /\ loop.params.attrs /= <<>>)

\* C2: the schema the accessor returns follows the classification: the schema
\* of the aggregated parameter's type, or of a record with exactly the
\* structured parameters (identifier and type) in declaration order, or of the
\* empty-object type when there is no typed parameter.
C2_SchemaFollowsClassification ==
    tool.status = "ok" =>
        LET typed == TypedInputs(input_fn)
            of == tool.input_schema.schema_of
        IN CASE loop.params.kind = "Aggregated" ->
                    /\ typed /= <<>>
                    /\ Unwrap(loop.params.rust_type) = typed[Len(typed)]
                    /\ of.kind = "named"
                    /\ of.name = typed[Len(typed)].ty
             [] loop.params.kind = "Params" ->
                    /\ typed /= <<>>
                    /\ of.kind = "struct"
                    /\ of.fields = [i \in 1..Len(typed) |->
                                       [ident |-> typed[i].pat, rust_type |-> typed[i].ty]]
             [] OTHER ->
                    /\ typed = <<>>
                    /\ of.kind = "named"
                    /\ of.name = EMPTY_OBJECT

C2_Witness ==
    /\ tool.status = "ok"
    /\ loop.params.kind = "Params"
    /\ Len(loop.params.attrs) = 2
    /\ loop.params.attrs[1].ident /= loop.params.attrs[2].ident
    /\ loop.params.attrs[1].rust_type /= loop.params.attrs[2].rust_type

\* the documentation lines of a declaration as the claim describes them
TrimmedDocs(attrs) ==
    LET docs == SelectSeq(attrs, LAMBDA a : a.path = "doc")
    IN [i \in 1..Len(docs) |-> Trim(docs[i].text)]
KeptDocs(attrs) == SelectSeq(TrimmedDocs(attrs), LAMBDA l : l /= <<>>)

\* C3: without an explicit description the descriptor's description is the
\* trimmed newline-join of the documentation lines, each trimmed first, the
\* empty ones dropped, in source order.
C3_DocDescription ==
    (tool.status = "ok" /\ ~IsSome(fn_attr.description))
        => tool.description = Trim(Join(KeptDocs(input_fn.attrs)))

C3_Witness ==
    /\ tool.status = "ok"
    /\ ~IsSome(fn_attr.description)
    /\ Len(input_fn.attrs) = 2
    /\ Len(KeptDocs(input_fn.attrs)) = 2
    /\ input_fn.attrs[1].text /= Trim(input_fn.attrs[1].text)
    /\ KeptDocs(input_fn.attrs)[1] /= KeptDocs(input_fn.attrs)[2]

\* C4: with an explicit description the descriptor's description is that
\* expression, whatever the documentation comments are.
C4_ExplicitDescription ==
    (tool.status = "ok" /\ IsSome(fn_attr.description))
        => /\ tool.description = Unwrap(fn_attr.description)
           /\ fn_out.tool_attr_fn.description.kind = "expr"

C4_Witness ==
    /\ tool.status = "ok"
    /\ IsSome(fn_attr.description)
    /\ KeptDocs(input_fn.attrs) /= <<>>
    /\ Unwrap(fn_attr.description) /= Trim(Unwrap(fn_attr.description))

\* C5: the descriptor's name is the explicit name when given and the
\* identifier's text otherwise; the accessor and the wrapper are named from
\* the identifier in both cases.
C5_Names ==
    /\ tool.status = "ok"
          => tool.name = (IF IsSome(fn_attr.name) THEN Unwrap(fn_attr.name) ELSE input_fn.ident)
    /\ fn_out.status = "Ok"
          => /\ fn_out.tool_attr_fn.ident = input_fn.ident \o "_tool_attr"
             /\ fn_out.tool_call_fn.ident = input_fn.ident \o "_tool_call"

C5_Witness ==
    /\ tool.status = "ok"
    /\ IsSome(fn_attr.name)
    /\ tool.name /= input_fn.ident
    /\ fn_out.tool_attr_fn.ident = input_fn.ident \o "_tool_attr"

\* the attribute arguments of the block parsed and tool_impl_item returned
ImplReturned == impl_pc = "returned" /\ ParseImplAttrs(impl_tokens).status = "Ok"
BindingIdentSupplied == IsSome(impl_attr.tool_box) /\ IsSome(Unwrap(impl_attr.tool_box))
MissingBinding ==
    /\ impl_out.status = "Err"
    /\ impl_out.err = MSG_TOOL_BOX_REQUIRED
    /\ impl_out.items = <<>>
    /\ impl_out.extend = None

\* C6 as stated: a trait implementation is generated only with a binding
\* identifier; with the tool_box key absent or present without an identifier
\* tool_impl_item fails with the missing-binding error.
C6_IdentRequired ==
    (ImplReturned /\ input_impl.trait_)
        => IF BindingIdentSupplied THEN impl_out.status = "Ok" ELSE MissingBinding

\* C6 amended: a trait implementation is generated exactly when the tool_box
\* key is present, with or without an identifier; with the key absent
\* tool_impl_item fails with the missing-binding error and emits nothing.
C6_KeyRequired ==
    (ImplReturned /\ input_impl.trait_)
        => IF IsSome(impl_attr.tool_box) THEN impl_out.status = "Ok" ELSE MissingBinding

C6_Witness ==
    /\ ImplReturned
    /\ input_impl.trait_
    /\ impl_attr.tool_box = Some(None)
    /\ impl_out.status = "Ok"
    /\ impl_out.items /= <<>>

\* the tool-marked methods of the block, in declaration order
MarkedMethods(input) == SelectSeq(input.items, IsToolMarked)
MarkedIdents(input) ==
    LET ms == MarkedMethods(input) IN [i \in 1..Len(ms) |-> ms[i].ident]

\* C7: for an inherent impl block with a binding the listing (the generated
\* list method, or the identifiers handed to tool_box!) has exactly one entry
\* per tool-marked method, in declaration order, none for an unmarked method,
\* and no next cursor.
C7_OneEntryPerToolMethod ==
    /\ (ImplReturned /\ ~input_impl.trait_ /\ IsSome(impl_attr.tool_box))
          => /\ impl_out.status = "Ok"
             /\ IF input_impl.generics
                THEN impl_out.items[2].tools =
                        [i \in 1..Len(MarkedIdents(input_impl)) |->
                            MarkedIdents(input_impl)[i] \o "_tool_attr"]
                ELSE impl_out.items[1].idents = MarkedIdents(input_impl)
    /\ response.kind = "list"
          => /\ response.next_cursor = None
             /\ response.tools =
                    [i \in 1..Len(MarkedIdents(input_impl)) |->
                        MarkedIdents(input_impl)[i] \o "_tool_attr"]

C9_SequentialExtraction ==
    LET stmts == fn_out.tool_call_fn.stmts
        tr == run.trace
        payload == CASE loop.params.kind = "Aggregated" -> 1
                     [] loop.params.kind = "Params" -> 2
                     [] OTHER -> 0
    IN /\ run.pc /= "idle"
            => /\ Len(stmts) = (IF HasReceiver(input_fn) THEN 1 ELSE 0) + payload
               /\ HasReceiver(input_fn)
                     => /\ stmts[1].ty = Receiver.ty
                        /\ stmts[1].binds = {RECEIVER_IDENT, CONTEXT_IDENT}
       /\ \A k \in DOMAIN tr :
             /\ tr[k].stmt = k
             /\ tr[k].ctx_in =
                   Cardinality({j \in 1..(k - 1) : CONTEXT_IDENT \in stmts[j].binds})
             /\ ~tr[k].ok
                   => /\ k = Len(tr)
                      /\ run.pc = "done"
                      /\ run.ret = "Err:" \o stmts[k].op
                      /\ run.invoked = 0
       /\ run.invoked <= 1
       /\ run.invoked = 1
             => /\ Len(tr) = Len(stmts)
                /\ \A k \in DOMAIN tr : tr[k].ok

C9_Witness ==
    /\ run.pc = "done"
    /\ Len(fn_out.tool_call_fn.stmts) = 3
    /\ Len(run.trace) = 2
    /\ run.trace[1].ok
    /\ ~run.trace[2].ok
    /\ run.invoked = 0

\* C10: for every accepted declaration the wrapper calls the original with
\* one argument per declared parameter, in declaration order, and every
\* argument was bound by an extraction statement before the call.
C10_ArgsExtracted ==
    fn_out.status = "Ok" =>
        LET w == fn_out.tool_call_fn
        IN /\ Len(w.call.args) = Len(input_fn.inputs)
           /\ \A i \in DOMAIN w.call.args : w.call.args[i] = CallArg(input_fn.inputs[i])
           /\ CallVars(w.call) \subseteq (EnvAfter(w.stmts, {}) \ {CONTEXT_IDENT})

\* C11 as stated: the emitted wrapper is asynchronous exactly when the
\* original declaration is.
C11_AsyncMatchesOriginal ==
    fn_out.status = "Ok" => (fn_out.tool_call_fn.asyncness <=> input_fn.asyncness)

\* C11 amended: the emitted wrapper is always an `async fn`; what follows the
\* original declaration is the call inside it, which awaits the original
\* exactly when the original is asynchronous.
C11_AsyncWrapperAwaitsAsync ==
    fn_out.status = "Ok" =>
        /\ fn_out.tool_call_fn.asyncness
        /\ fn_out.tool_call_fn.call.await <=> input_fn.asyncness
        /\ fn_out.tool_call_fn.call.fn = input_fn.ident

C11_Witness ==
    /\ fn_out.status = "Ok"
    /\ ~input_fn.asyncness
    /\ fn_out.tool_call_fn.asyncness
    /\ ~fn_out.tool_call_fn.call.await
    /\ run.pc = "done"
    /\ run.invoked = 1

\* C12: every failure of the generated runtime code reaches the caller as a
\* structured error, an extraction failure of the wrapper or the router's
\* tool-not-found error; no call of an accessor, a wrapper, the router or the
\* listing ends in a panic.
C12_NoUncaughtFault ==
    /\ tool.status /= "panic"
    /\ response.kind /= "panic"
    /\ response.kind = "error" => response.error = "invalid_params: " \o MSG_TOOL_NOT_FOUND
    /\ (run.pc = "done" /\ run.invoked = 0)
          => run.ret \in {"Err:from_tool_call_context_part", "Err:parse_json_object"}

\* C13: an annotation table that does not fit the annotation shape is
\* detected at build time, tool_fn_item returning no emitted code for it;
\* without an annotation table the accessor's annotations field is absent.
C13_MisfitAbortsBuild ==
    /\ (pc = "returned" /\ IsSome(fn_attr.annotations)
            /\ ~FitsToolAnnotations(Unwrap(fn_attr.annotations)))
          => (fn_out.status = "Err" /\ fn_out.tool_attr_fn = NoAttrFn
              /\ fn_out.tool_call_fn = NoCallFn)
    /\ (fn_out.status = "Ok" /\ fn_attr.annotations = None)
          => fn_out.tool_attr_fn.annotations.kind = "None"
    /\ (tool.status = "ok" /\ fn_attr.annotations = None) => tool.annotations = None

\* the entries of a comma-separated attribute argument list
RECURSIVE SplitComma(_)
SplitComma(tokens) ==
    IF tokens = <<>> THEN <<>>
    ELSE LET commas == {i \in DOMAIN tokens : tokens[i] = ","}
             k == IF commas = {} THEN Len(tokens) + 1
                  ELSE CHOOSE i \in commas : \A j \in commas : i <= j
         IN <<SubSeq(tokens, 1, k - 1)>>
               \o (IF k >= Len(tokens) THEN <<>>
                   ELSE SplitComma(SubSeq(tokens, k + 1, Len(tokens))))
FnParsed == pc \notin {"idle", "parse"}
FnParseFailed ==
    pc = "returned" /\ fn_out.status = "Err" /\ fn_out.err \notin {MSG_NO_IDENT, MSG_MIXED}
FnKeys == {"name", "description", "vis", "annotations", AGGREGATED_IDENT}
ImplKeys == {"tool_box", "default_build", "description"}
UnknownKeyIn(tokens, keys) ==
    \E i \in DOMAIN SplitComma(tokens) :
        /\ SplitComma(tokens)[i] /= <<>>
        /\ SplitComma(tokens)[i][1] \notin keys

\* C14: the aggregation marker is an ordinary entry of the function
\* attribute list: whenever the list without its marker entries parses, the
\* list with the marker entries (at any position, separated by commas) parses
\* too, sets the aggregation flag and gives every other key the same value.
C14_MarkerAnywhere ==
    LET es == SplitComma(fn_tokens)
        others == SelectSeq(es, LAMBDA e : e /= <<AGGREGATED_IDENT>>)
        base == ParseFnAttrs(JoinComma(others))
    IN (FnParsed /\ Len(others) < Len(es) /\ base.status = "Ok")
          => /\ ~FnParseFailed
             /\ fn_attr = [base.attrs EXCEPT !.aggr = TRUE]

\* C15: in both attribute grammars a key outside the recognized set, wherever
\* it stands in the list, makes the parse and so the generation fail with the
\* unknown-attribute error, and no code is emitted.
C15_UnknownKeyRejected ==
    /\ (FnParsed /\ UnknownKeyIn(fn_tokens, FnKeys))
          => /\ pc = "returned"
             /\ fn_out.status = "Err"
             /\ fn_out.err = MSG_UNKNOWN_ATTRIBUTE
             /\ fn_out.tool_attr_fn = NoAttrFn
             /\ fn_out.tool_call_fn = NoCallFn
    /\ (impl_pc \notin {"idle", "parse"} /\ UnknownKeyIn(impl_tokens, ImplKeys))
          => /\ impl_pc = "returned"
             /\ impl_out = ImplErr(MSG_UNKNOWN_ATTRIBUTE)

ImplEntries(key) ==
    SelectSeq(SplitComma(impl_tokens), LAMBDA e : e /= <<>> /\ e[1] = key)
\* the default-build flag as the attribute arguments give it: true unless
\* they say `default_build = false` (the last entry of the key decides)
DefaultBuildWritten ==
    LET db == ImplEntries("default_build")
    IN db = <<>> \/ db[Len(db)] /= <<"default_build", "=", "false">>

\* C16: whenever tool_impl_item succeeds, the handler-interface
\* implementation is emitted exactly for an inherent impl with the tool_box
\* key and a true default-build flag, the flag being true unless the
\* arguments say `default_build = false`; an inherent impl without the
\* tool_box key is returned unchanged, with no router, listing or handler.
C16_HandlerEmission ==
    (ImplReturned /\ impl_out.status = "Ok")
        => /\ IsSome(impl_out.extend)
                <=> /\ ~input_impl.trait_
                    /\ ImplEntries("tool_box") /= <<>>
                    /\ DefaultBuildWritten
           /\ impl_attr.default_build <=> DefaultBuildWritten
           /\ (~input_impl.trait_ /\ ImplEntries("tool_box") = <<>>)
                => (impl_out.items = <<>> /\ impl_out.extend = None)

C16_Witness ==
    /\ ImplReturned
    /\ impl_out.status = "Ok"
    /\ ~input_impl.trait_
    /\ ImplEntries("tool_box") /= <<>>
    /\ ImplEntries("default_build") /= <<>>
    /\ ~DefaultBuildWritten
    /\ impl_out.items /= <<>>
    /\ impl_out.extend = None

TypedBefore(n) == {i \in 1..(n - 1) : input_fn.inputs[i].kind = "Typed"}
ReceiverCount == Cardinality({i \in DOMAIN input_fn.inputs : input_fn.inputs[i].kind = "Receiver"})
PayloadStmts(params) ==
    CASE params.kind = "Aggregated" -> 1
      [] params.kind = "Params" -> 2
      [] OTHER -> 0

====
